---- MODULE Spec2Model ----
(***************************************************************************)
(* Model of the game-server application facade (src/src/application.cpp,   *)
(* src/src/application.h) and of the world loader (src/unnamed/part_000).  *)
(*                                                                         *)
(* Representation.                                                         *)
(*  - A model::Position is a pair of integers counted in 1/20 of a world   *)
(*    unit (0.05), so the radii 0.3 and 0.55 and the road half-width 0.4   *)
(*    are the integers 6, 11 and 8.  Velocities are lattice units per      *)
(*    second and a tick's delta is in milliseconds.                        *)
(*  - A pointer into the players or dogs vector is its 1-based position;   *)
(*    0 is nullptr.  The three indices store 0-based positions as the code *)
(*    does.                                                                *)
(*  - std::optional<T> is a sequence of length 0 or 1.                     *)
(*  - A steady_clock time point is stored as its age (whole seconds before *)
(*    now), saturating at MaxAge; Elapse ages every stored time point.     *)
(*    Comparisons "now - t >= dog_retirement_time_seconds" are unaffected  *)
(*    because MaxAge >= RetireTime.                                        *)
(*  - A token is the serial number of the GenerateToken() draw (the 128    *)
(*    random bits of two draws are taken never to repeat).                 *)
(***************************************************************************)
EXTENDS Integers, Sequences, FiniteSets, TLC

----------------------------------------------------------------------------
(* Bounds of the model *)

\* Spec, SinkSpec and FairSpec offer JoinGame while fewer than MaxJoins players
\* have joined.
MaxJoins == 2

\* SessionSpec offers JoinGame while fewer than SessionJoins players have joined
\* and fewer than SessionLive of them are in the players sequence.
SessionJoins == 4

SessionLive == 2

\* CrowdSpec offers JoinGame while fewer than CrowdJoins players have joined.
CrowdJoins == 3

\* LootSpec offers JoinGame while fewer than LootJoins players have joined.
LootJoins == 1

\* RaceSpec offers JoinGame while fewer than RaceJoins players have joined.
RaceJoins == 2

\* PoolSpec: the capacity the ConnectionPool is constructed with, and the
\* number of threads that call Database operations.
PoolCapacity == 2

PoolThreads == 3

\* RecordsSpec offers AddRetiredPlayer while the table has fewer rows.
MaxRows == 3

\* bagCapacity of the configured map.
BagCapacity == 1

----------------------------------------------------------------------------
(* Program constants and configuration *)

\* collision radius of a loot item, 0.3
ItemRadius == 6

\* collision radius of an office, 0.55
OfficeRadius == 11

\* number of items GenerateLootItems spawns on an empty map
LootPerSpawn == 5

\* type index and value of a spawned item
SpawnType == 1

SpawnValue == 10

\* half-width of a road strip, 0.4
RoadHalfWidth == 8

\* dog_retirement_time_seconds_, in seconds
RetireTime == 1

\* dogSpeed of the configured map, 5.0 world units per second
DogSpeed == 100

\* ages saturate at the retirement time
MaxAge == RetireTime

\* world units to lattice units
W(n) == n * 20

Pos(x, y) == [x |-> x, y |-> y]

Vel(vx, vy) == [vx |-> vx, vy |-> vy]

\* The configured world: one map with the horizontal road (10,10)-(20,10),
\* on which the dogs start, the vertical roads (15,10)-(15,13) and
\* (20,10)-(20,16) that branch off it, an office at each end of the horizontal
\* road and no "lootTypes" key.
GameMaps ==
    << [ id |-> "m1",
         roads |-> << [x0 |-> W(10), y0 |-> W(10), x1 |-> W(20), y1 |-> W(10)],
                      [x0 |-> W(15), y0 |-> W(10), x1 |-> W(15), y1 |-> W(13)],
                      [x0 |-> W(20), y0 |-> W(10), x1 |-> W(20), y1 |-> W(16)] >>,
         offices |-> << Pos(W(10), W(10)), Pos(W(20), W(10)) >>,
         dog_speed |-> DogSpeed,
         bag_capacity |-> BagCapacity,
         loot_types |-> 0 ] >>

MapIds == { GameMaps[i].id : i \in DOMAIN GameMaps }

\* The same world with one entry under the "lootTypes" key of the map.
LootTypedMaps == [ m \in DOMAIN GameMaps |-> [ GameMaps[m] EXCEPT !.loot_types = 1 ] ]

\* The constructor call LootItem(Id{loot_id++}, loot_id % 5 + 1, value, pos) of
\* LoadMapLootTypes reads loot_id in one argument and increments it in
\* another; the arguments are evaluated in an order the build chooses.
EvalOrders == {"id_first", "type_first"}

\* retirement_callback_ is wired to the records sink
CallbackSet == TRUE

----------------------------------------------------------------------------
(* Inputs *)

Names == {"", "ann", "bob"}

JoinMapIds == {"m1", "nomap"}

Moves == {"R", "", "X"}

Deltas == {1000, 2000}

Ties == {"fifo", "lifo"}

Sinks == {"ok", "down"}

Tokens == 1..MaxJoins

SessionNames == {"", "ann"}

SessionTokens == 1..SessionJoins

----------------------------------------------------------------------------
(* State *)

VARIABLES
    players,           \* game_.GetPlayers(): sequence of Player
    dogs,              \* game_.GetDogs(): sequence of Dog
    token_index,       \* game_.GetTokenToPlayerIndex()
    player_id_index,   \* game_.GetPlayerIdToIndex()
    dog_id_index,      \* game_.GetDogIdToIndex()
    player_metadata,   \* player_metadata_
    loot,              \* map id -> Map::GetLootItems()
    next_dog_id,       \* static next_dog_id of JoinGame
    next_player_id,    \* static next_player_id of JoinGame
    next_loot_id,      \* static next_loot_id of GenerateLootItems
    token_seq,         \* number of GenerateToken() draws so far
    records,           \* calls received by the retirement callback that returned
    joined,            \* history: the Player created by each successful JoinGame
    retire_calls,      \* history: the RetirePlayer call behind each record
    tick_log,          \* history: the player id whose callback threw in the last Tick
    ticker,            \* history: the beat of the ticker, where a specification counts it
    reply,             \* history: the last JoinGame call and what it returned,
                       \* where a specification records it
    issued,            \* history: map id -> the ids given to the items of the map,
                       \* in the order they were given
    phase,             \* where the ticker thread is in Tick: 0 outside, 1 after
                       \* UpdateGameState, 2 after GenerateLootItems
    pool_,             \* ConnectionPool::pool_: the connection each slot holds, 0
                       \* for a shared_ptr that was moved from
    used_connections_, \* ConnectionPool::used_connections_
    mutex_,            \* ConnectionPool::mutex_: the thread that holds it, or 0
    cond_var_,         \* ConnectionPool::cond_var_: the threads blocked in wait
    workers,           \* thread -> where it is in a Database operation, and the
                       \* conn_ of its ConnectionWrapper
    retired_players,   \* the rows of the table retired_players
    top                \* history: the last GetRecords call and what it returned

\* the state of the records sink
db == << pool_, used_connections_, mutex_, cond_var_, workers, retired_players, top >>

vars == << players, dogs, token_index, player_id_index, dog_id_index,
           player_metadata, loot, next_dog_id, next_player_id, next_loot_id,
           token_seq, records, joined, retire_calls, tick_log, ticker, reply,
           issued, phase, db >>

\* everything but the record of the last JoinGame call
served == << players, dogs, token_index, player_id_index, dog_id_index,
             player_metadata, loot, next_dog_id, next_player_id, next_loot_id,
             token_seq, records, joined, retire_calls, tick_log, ticker,
             issued, phase >>

\* The mutable application state as one value, for the operators below.
App ==
    [ players |-> players, dogs |-> dogs, token_index |-> token_index,
      player_id_index |-> player_id_index, dog_id_index |-> dog_id_index,
      player_metadata |-> player_metadata, loot |-> loot,
      next_loot_id |-> next_loot_id, records |-> records,
      retire_calls |-> retire_calls, issued |-> issued ]

----------------------------------------------------------------------------
(* Containers *)

Put(f, k, v) == [x \in (DOMAIN f) \cup {k} |-> IF x = k THEN v ELSE f[x]]

Erase(f, k) == [x \in (DOMAIN f) \ {k} |-> f[x]]

\* std::remove_if + erase by id: the elements with another id, in order
RemoveId(seq, id) == SelectSeq(seq, LAMBDA e : e.id # id)

----------------------------------------------------------------------------
(* Lookups *)

\* index lookup with the bounds check: a 1-based position, or 0 for nullptr
Lookup(index, key, size) ==
    IF key \notin DOMAIN index THEN 0
    ELSE IF index[key] >= size THEN 0
    ELSE index[key] + 1

FindPlayerByToken(app, auth_token) ==
    Lookup(app.token_index, auth_token, Len(app.players))

FindDog(app, id) ==
    Lookup(app.dog_id_index, id, Len(app.dogs))

\* Game::FindPlayer: the player-id index, read like the two lookups above
FindPlayer(app, id) ==
    Lookup(app.player_id_index, id, Len(app.players))

\* Game::FindMap: the position of the map in GameMaps, or 0
FindMap(id) ==
    IF \E i \in DOMAIN GameMaps : GameMaps[i].id = id
    THEN CHOOSE i \in DOMAIN GameMaps : GameMaps[i].id = id
    ELSE 0

\* the players on the map of the player at position p; none for nullptr
PlayersOnMapOf(app, p) ==
    IF p = 0 THEN << >>
    ELSE SelectSeq(app.players, LAMBDA q : q.map_id = app.players[p].map_id)

GetPlayers(app, auth_token) == PlayersOnMapOf(app, FindPlayerByToken(app, auth_token))

GetGameState(app, auth_token) == PlayersOnMapOf(app, FindPlayerByToken(app, auth_token))

----------------------------------------------------------------------------
(* Construction *)

\* Map::GetDefaultDogPosition: the start of the first road
DefaultDogPosition(map) == Pos(map.roads[1].x0, map.roads[1].y0)

\* LoadMapLootTypes: three items per loot type, ids counted from 0 per map.
\* The type argument reads loot_id before or after the increment, as the
\* order of evaluation has it.
LoadMapLootTypes(map, order) ==
    [ k \in 1..(3 * map.loot_types) |->
        [ id |-> k - 1,
          type |-> IF order = "id_first" THEN (k % 5) + 1 ELSE ((k - 1) % 5) + 1,
          value |-> SpawnValue,
          pos |-> Pos(W(10) + ((k - 1) % 3) * W(5), W(10) + (k - 1) * W(3)) ] ]

\* the ids of a sequence of items
IdsOf(items) == [ i \in DOMAIN items |-> items[i].id ]

\* the state after construction, for a world and an order of evaluation
InitWith(maps, order) ==
    /\ players = << >>
    /\ dogs = << >>
    /\ token_index = << >>
    /\ player_id_index = << >>
    /\ dog_id_index = << >>
    /\ player_metadata = << >>
    /\ loot = [ m \in MapIds |-> LoadMapLootTypes(maps[FindMap(m)], order) ]
    /\ next_dog_id = 0
    /\ next_player_id = 0
    /\ next_loot_id = 0
    /\ token_seq = 0
    /\ records = << >>
    /\ joined = << >>
    /\ retire_calls = << >>
    /\ tick_log = [ threw |-> << >> ]
    /\ ticker = 0
    /\ reply = << >>
    /\ issued = [ m \in MapIds |-> IdsOf(LoadMapLootTypes(maps[FindMap(m)], order)) ]
    /\ phase = 0
    /\ pool_ = [ k \in 1..PoolCapacity |-> k ]
    /\ used_connections_ = 0
    /\ mutex_ = 0
    /\ cond_var_ = {}
    /\ workers = [ t \in 1..PoolThreads |-> [ pc |-> "idle", conn_ |-> 0 ] ]
    /\ retired_players = << >>
    /\ top = << >>

Init == \E order \in EvalOrders : InitWith(GameMaps, order)

\* the state after construction when the map has a loot type
LootInit == \E order \in EvalOrders : InitWith(LootTypedMaps, order)

----------------------------------------------------------------------------
(* JoinGame *)

\* the Dog that JoinGame constructs
NewDog(dog_id, map_id, map) ==
    [ id |-> dog_id, map_id |-> map_id, pos |-> DefaultDogPosition(map),
      vel |-> Vel(0, 0), dir |-> "N", bag |-> << >>, score |-> 0,
      bag_capacity |-> map.bag_capacity ]

\* the Player that JoinGame constructs
NewPlayer(player_id, user_name, dog_id, map_id, token) ==
    [ id |-> player_id, name |-> user_name, dog_id |-> dog_id,
      map_id |-> map_id, token |-> token ]

NewMetadata == [ join_age |-> 0, idle_age |-> << >>, is_retired |-> FALSE ]

\* the token GenerateToken() returns on its next call
GenerateToken == token_seq + 1

\* what JoinGame returns: std::nullopt, or the token and the id of the player
\* it creates
JoinGameResult(user_name, map_id) ==
    IF FindMap(map_id) = 0 \/ user_name = ""
    THEN << >>
    ELSE << [ auth_token |-> GenerateToken, player_id |-> next_player_id ] >>

\* JoinGame with the dog id drawn before the map and the name are looked at
JoinGameDrawsIdFirst(user_name, map_id) ==
    IF FindMap(map_id) = 0 \/ user_name = ""
    THEN /\ next_dog_id' = next_dog_id + 1
         /\ UNCHANGED << players, dogs, token_index, player_id_index, dog_id_index,
                         player_metadata, loot, next_player_id, next_loot_id,
                         token_seq, records, joined, retire_calls, tick_log, ticker,
             issued, phase, db >>
    ELSE
        /\ next_dog_id' = next_dog_id + 1
        /\ dogs' = Append(dogs, NewDog(next_dog_id, map_id, GameMaps[FindMap(map_id)]))
        /\ next_player_id' = next_player_id + 1
        /\ token_seq' = token_seq + 1
        /\ players' = Append(players, NewPlayer(next_player_id, user_name,
                                                next_dog_id, map_id, GenerateToken))
        /\ token_index' = Put(token_index, GenerateToken, Len(players))
        /\ player_id_index' = Put(player_id_index, next_player_id, Len(players))
        /\ dog_id_index' = Put(dog_id_index, next_dog_id, Len(dogs))
        /\ player_metadata' = Put(player_metadata, next_player_id, NewMetadata)
        /\ joined' = Append(joined, NewPlayer(next_player_id, user_name,
                                              next_dog_id, map_id, GenerateToken))
        /\ UNCHANGED << loot, next_loot_id, records, retire_calls, tick_log, ticker,
                        issued, phase, db >>

JoinGame(user_name, map_id) ==
    IF FindMap(map_id) = 0 \/ user_name = ""
    THEN UNCHANGED << served, db >>
    ELSE
        /\ next_dog_id' = next_dog_id + 1
        /\ dogs' = Append(dogs, NewDog(next_dog_id, map_id, GameMaps[FindMap(map_id)]))
        /\ next_player_id' = next_player_id + 1
        /\ token_seq' = token_seq + 1
        /\ players' = Append(players, NewPlayer(next_player_id, user_name,
                                                next_dog_id, map_id, GenerateToken))
        /\ token_index' = Put(token_index, GenerateToken, Len(players))
        /\ player_id_index' = Put(player_id_index, next_player_id, Len(players))
        /\ dog_id_index' = Put(dog_id_index, next_dog_id, Len(dogs))
        /\ player_metadata' = Put(player_metadata, next_player_id, NewMetadata)
        /\ joined' = Append(joined, NewPlayer(next_player_id, user_name,
                                              next_dog_id, map_id, GenerateToken))
        /\ UNCHANGED << loot, next_loot_id, records, retire_calls, tick_log, ticker,
                        issued, phase, db >>

----------------------------------------------------------------------------
(* SetPlayerAction *)

MoveCodes == {"L", "R", "U", "D", ""}

\* the world's defaultDogSpeed fallback, 1.0
GetDogSpeedForMap(map_id) ==
    IF FindMap(map_id) = 0 THEN W(1) ELSE GameMaps[FindMap(map_id)].dog_speed

NewVelocity(move, speed) ==
    CASE move = "L" -> Vel(-speed, 0)
      [] move = "R" -> Vel(speed, 0)
      [] move = "U" -> Vel(0, -speed)
      [] move = "D" -> Vel(0, speed)
      [] OTHER -> Vel(0, 0)

NewDirection(move, dog) ==
    CASE move = "L" -> "W"
      [] move = "R" -> "E"
      [] move = "U" -> "N"
      [] move = "D" -> "S"
      [] OTHER -> dog.dir

\* IdleAfterAction where a stop sets the idle-start time to now in any case
IdleAfterActionRestarts(meta, player_id, new_velocity) ==
    IF player_id \in DOMAIN meta /\ ~meta[player_id].is_retired
    THEN IF new_velocity = Vel(0, 0)
         THEN [ meta EXCEPT ![player_id].idle_age = << 0 >> ]
         ELSE [ meta EXCEPT ![player_id].idle_age = << >> ]
    ELSE meta

\* the idle-start bookkeeping at the end of SetPlayerAction
IdleAfterAction(meta, player_id, new_velocity) ==
    IF player_id \in DOMAIN meta /\ ~meta[player_id].is_retired
    THEN IF new_velocity = Vel(0, 0)
         THEN IF meta[player_id].idle_age = << >>
              THEN [ meta EXCEPT ![player_id].idle_age = << 0 >> ]
              ELSE meta
         ELSE [ meta EXCEPT ![player_id].idle_age = << >> ]
    ELSE meta

\* SetPlayerAction once the dog (at position d) and the move code are accepted
ApplyAction(app, player, d, move) ==
    [ app EXCEPT
        !.dogs[d].vel = NewVelocity(move, GetDogSpeedForMap(player.map_id)),
        !.dogs[d].dir = NewDirection(move, app.dogs[d]),
        !.player_metadata =
            IdleAfterAction(@, player.id,
                            NewVelocity(move, GetDogSpeedForMap(player.map_id))) ]

\* SetPlayerAction(player, move): the application state after the call
SetPlayerAction(app, player, move) ==
    IF FindDog(app, player.dog_id) = 0 \/ FindMap(player.map_id) = 0
       \/ move \notin MoveCodes
    THEN app
    ELSE ApplyAction(app, player, FindDog(app, player.dog_id), move)

\* what SetPlayerAction(player, move) returns
SetPlayerActionResult(app, player, move) ==
    ~(FindDog(app, player.dog_id) = 0 \/ FindMap(player.map_id) = 0
      \/ move \notin MoveCodes)

\* the request of the transport layer: the player is resolved from the token,
\* and an unknown token leaves the state alone
RequestOn(app, p, move) ==
    IF p = 0 THEN app ELSE SetPlayerAction(app, app.players[p], move)

ActionRequest(auth_token, move) ==
    /\ dogs' = RequestOn(App, FindPlayerByToken(App, auth_token), move).dogs
    /\ player_metadata' =
           RequestOn(App, FindPlayerByToken(App, auth_token), move).player_metadata
    /\ UNCHANGED << players, token_index, player_id_index, dog_id_index, loot,
                    next_dog_id, next_player_id, next_loot_id, token_seq, records,
                    joined, retire_calls, tick_log, ticker, reply, issued, phase, db >>

----------------------------------------------------------------------------
(* The steady clock *)

Older(age) == IF age < MaxAge THEN age + 1 ELSE MaxAge

OlderMetadata(m) ==
    IF m.is_retired THEN m
    ELSE [ m EXCEPT !.join_age = Older(@),
                    !.idle_age = [ i \in DOMAIN @ |-> Older(@[i]) ] ]

\* One second passes: every stored time point of a live player is a second older.
Elapse ==
    /\ player_metadata' =
           [ id \in DOMAIN player_metadata |-> OlderMetadata(player_metadata[id]) ]
    /\ UNCHANGED << players, dogs, token_index, player_id_index, dog_id_index,
                    loot, next_dog_id, next_player_id, next_loot_id, token_seq,
                    records, joined, retire_calls, tick_log, ticker, reply, issued, phase, db >>

----------------------------------------------------------------------------
(* Motion *)

Min(a, b) == IF a < b THEN a ELSE b

Max(a, b) == IF a > b THEN a ELSE b

Abs(a) == IF a < 0 THEN -a ELSE a

Sgn(a) == IF a < 0 THEN -1 ELSE IF a > 0 THEN 1 ELSE 0

Clamp(v, lo, hi) == Max(lo, Min(v, hi))

\* the rectangle of a road strip
Strip(road) ==
    [ xlo |-> Min(road.x0, road.x1) - RoadHalfWidth,
      xhi |-> Max(road.x0, road.x1) + RoadHalfWidth,
      ylo |-> Min(road.y0, road.y1) - RoadHalfWidth,
      yhi |-> Max(road.y0, road.y1) + RoadHalfWidth ]

InStrip(pos, st) ==
    /\ st.xlo <= pos.x /\ pos.x <= st.xhi
    /\ st.ylo <= pos.y /\ pos.y <= st.yhi

\* the strips of the map that contain the position
StripsAt(map, pos) ==
    { st \in { Strip(map.roads[i]) : i \in DOMAIN map.roads } : InStrip(pos, st) }

\* the unconstrained target start + velocity * delta
Target(pos, vel, delta) ==
    Pos(pos.x + (vel.vx * delta) \div 1000, pos.y + (vel.vy * delta) \div 1000)

ClipTo(target, st) ==
    Pos(Clamp(target.x, st.xlo, st.xhi), Clamp(target.y, st.ylo, st.yhi))

\* how far the end lies from the start along the velocity
Along(e, pos, vel) == (e.x - pos.x) * Sgn(vel.vx) + (e.y - pos.y) * Sgn(vel.vy)

\* the end farthest along the velocity; the start if no strip contains it
Farthest(ends, pos, vel) ==
    IF ends = {} THEN pos
    ELSE CHOOSE e \in ends : \A f \in ends : Along(f, pos, vel) <= Along(e, pos, vel)

MovementResult(end, target) ==
    [ new_position |-> end, collision_occurred |-> end # target ]

\* CollisionDetector::CalculateMovement: the target clipped to each strip that
\* contains the start; the end farthest along the velocity is taken.
CalculateMovement(map, pos, vel, delta) ==
    MovementResult(
        Farthest({ ClipTo(Target(pos, vel, delta), st) : st \in StripsAt(map, pos) },
                 pos, vel),
        Target(pos, vel, delta))

\* the dog after SetPosition and, on a clipped move, SetVelocity({0, 0})
Moved(dog, movement_result) ==
    [ dog EXCEPT !.pos = movement_result.new_position,
                 !.vel = IF movement_result.collision_occurred THEN Vel(0, 0) ELSE @ ]

MoveDog(dog, delta) ==
    IF dog.vel = Vel(0, 0) \/ FindMap(dog.map_id) = 0
    THEN dog
    ELSE Moved(dog, CalculateMovement(GameMaps[FindMap(dog.map_id)],
                                      dog.pos, dog.vel, delta))

----------------------------------------------------------------------------
(* Collision times *)

\* A collision time is the pair [p, q] that stands for (p - sqrt(q)) / path_length;
\* all events of one dog in one tick share the path length.  Before(a, b) is
\* a < b, decided exactly in integers: with x = a.p - b.p and
\* m = a.q + b.q - x * x it is x < sqrt(a.q) - sqrt(b.q).
BeforeBy(aq, bq, x, m) ==
    IF aq >= bq
    THEN x < 0 \/ (m > 0 /\ 4 * aq * bq < m * m)
    ELSE x < 0 /\ (m < 0 \/ 4 * aq * bq > m * m)

Before(a, b) ==
    BeforeBy(a.q, b.q, a.p - b.p, a.q + b.q - (a.p - b.p) * (a.p - b.p))

Dist2(a, b) == (a.x - b.x) * (a.x - b.x) + (a.y - b.y) * (a.y - b.y)

\* hypot(dx, dy) of an axis-parallel segment
PathLength(start_pos, end_pos) ==
    Abs(end_pos.x - start_pos.x) + Abs(end_pos.y - start_pos.y)

\* to_target . dir, the direction being a unit vector along an axis
Projection(start_pos, end_pos, target_pos) ==
    (target_pos.x - start_pos.x) * Sgn(end_pos.x - start_pos.x)
    + (target_pos.y - start_pos.y) * Sgn(end_pos.y - start_pos.y)

\* the point of the segment closest to the target
Closest(start_pos, end_pos, projection, path_length) ==
    IF projection <= 0 THEN start_pos
    ELSE IF projection >= path_length THEN end_pos
    ELSE Pos(start_pos.x + Sgn(end_pos.x - start_pos.x) * projection,
             start_pos.y + Sgn(end_pos.y - start_pos.y) * projection)

\* the tail of FindCollisionTime: d2 is distance_to_path squared, r2 the
\* collision distance squared; << >> for nullopt
CollisionAt(projection, path_length, d2, r2) ==
    IF d2 > r2 THEN << >>
    ELSE IF projection < 0 \/ projection * projection < r2 - d2 THEN << >>
    ELSE IF projection > path_length
            /\ (projection - path_length) * (projection - path_length) > r2 - d2
         THEN << >>
    ELSE << [p |-> projection, q |-> r2 - d2] >>

MovingCollision(start_pos, end_pos, target_pos, projection, path_length, r2) ==
    CollisionAt(projection, path_length,
                Dist2(target_pos, Closest(start_pos, end_pos, projection, path_length)),
                r2)

\* FindCollisionTime for an axis-parallel segment
FindCollisionTime(start_pos, end_pos, target_pos, collision_distance) ==
    IF PathLength(start_pos, end_pos) = 0
    THEN IF Dist2(target_pos, start_pos) <= collision_distance * collision_distance
         THEN << [p |-> 0, q |-> 0] >>
         ELSE << >>
    ELSE MovingCollision(start_pos, end_pos, target_pos,
                         Projection(start_pos, end_pos, target_pos),
                         PathLength(start_pos, end_pos),
                         collision_distance * collision_distance)

----------------------------------------------------------------------------
(* Bag and loot of model.h *)

IsBagFull(dog) == Len(dog.bag) >= dog.bag_capacity

AddToBag(dog, item) ==
    [ dog EXCEPT !.bag = Append(@, [id |-> item.id, type |-> item.type,
                                    value |-> item.value]) ]

RECURSIVE SumValues(_)
SumValues(bag) ==
    IF bag = << >> THEN 0 ELSE Head(bag).value + SumValues(Tail(bag))

\* Map::FindLootItem: the position of the first item with the id, or 0
FindLootItem(items, item_id) ==
    IF \E i \in DOMAIN items : items[i].id = item_id
    THEN CHOOSE i \in DOMAIN items :
             /\ items[i].id = item_id
             /\ \A j \in 1..(i - 1) : items[j].id # item_id
    ELSE 0

RemoveLootItem(items, item_id) == RemoveId(items, item_id)

----------------------------------------------------------------------------
(* ProcessDogCollisions *)

\* events.push_back(...) if the collision time has a value
EventIf(type, collision_time, dog_id, item_id, item_type) ==
    IF collision_time = << >> THEN << >>
    ELSE << [ type |-> type, timestamp |-> collision_time[1], dog_id |-> dog_id,
              item_id |-> item_id, item_type |-> item_type ] >>

RECURSIVE PickupEvents(_, _, _, _, _)
\* the first loop: a pickup event for each loot item on the path, in loot order
PickupEvents(dog, items, k, start_pos, end_pos) ==
    IF k > Len(items) THEN << >>
    ELSE EventIf("ITEM_PICKUP",
                 FindCollisionTime(start_pos, end_pos, items[k].pos, ItemRadius),
                 dog.id, << items[k].id >>, << items[k].type >>)
         \o PickupEvents(dog, items, k + 1, start_pos, end_pos)

RECURSIVE ReturnEvents(_, _, _, _, _)
\* the second loop: a return event for each office on the path, in office order
ReturnEvents(dog, offices, k, start_pos, end_pos) ==
    IF k > Len(offices) THEN << >>
    ELSE EventIf("OFFICE_RETURN",
                 FindCollisionTime(start_pos, end_pos, offices[k], OfficeRadius),
                 dog.id, << >>, << >>)
         \o ReturnEvents(dog, offices, k + 1, start_pos, end_pos)

\* the events in insertion order
CollisionEvents(dog, items, offices, start_pos, end_pos) ==
    PickupEvents(dog, items, 1, start_pos, end_pos)
    \o ReturnEvents(dog, offices, 1, start_pos, end_pos)

\* event i is placed before event j
Precedes(events, i, j, tie) ==
    \/ Before(events[i].timestamp, events[j].timestamp)
    \/ /\ ~Before(events[j].timestamp, events[i].timestamp)
       /\ IF tie = "fifo" THEN i < j ELSE i > j

\* std::sort left out: the events stay in insertion order
SortEventsUnsorted(events, tie) == events

\* std::sort by timestamp.  The order of events with equal timestamps is not
\* fixed by std::sort: tie = "fifo" keeps their insertion order, "lifo"
\* reverses it.
SortEvents(events, tie) ==
    [ k \in DOMAIN events |->
        events[CHOOSE i \in DOMAIN events :
                 Cardinality({ j \in DOMAIN events : Precedes(events, j, i, tie) }) = k - 1] ]

\* PickUp with the RemoveLootItem call left out
PickUpKeepOnMap(st, i) ==
    IF i = 0 THEN st
    ELSE [ dog |-> AddToBag(st.dog, st.items[i]), items |-> st.items ]

\* dog.AddToBag(*item) and map->RemoveLootItem(item->GetId()) for the item at
\* position i of the loot; nothing for nullptr
PickUp(st, i) ==
    IF i = 0 THEN st
    ELSE [ dog |-> AddToBag(st.dog, st.items[i]),
           items |-> RemoveLootItem(st.items, st.items[i].id) ]

\* ReturnToOffice with the AddScore calls left out
ReturnToOfficeKeepScore(st) == [ st EXCEPT !.dog.bag = << >> ]

\* ReturnToOffice with the ClearBag call left out
ReturnToOfficeKeepBag(st) ==
    [ st EXCEPT !.dog.score = @ + SumValues(st.dog.bag) ]

\* AddScore for every bag item, then ClearBag
ReturnToOffice(st) ==
    [ st EXCEPT !.dog.score = @ + SumValues(st.dog.bag), !.dog.bag = << >> ]

\* ApplyEvent where a pickup with a full bag takes the item off the map
ApplyEventFullBagDiscards(st, event) ==
    IF event.type = "ITEM_PICKUP"
    THEN IF ~IsBagFull(st.dog)
         THEN PickUp(st, FindLootItem(st.items, event.item_id[1]))
         ELSE [ st EXCEPT !.items = RemoveLootItem(@, event.item_id[1]) ]
    ELSE IF event.type = "OFFICE_RETURN" THEN ReturnToOffice(st)
    ELSE st

\* ApplyEvent with the IsBagFull test left out
ApplyEventAnyBag(st, event) ==
    IF event.type = "ITEM_PICKUP"
    THEN PickUp(st, FindLootItem(st.items, event.item_id[1]))
    ELSE IF event.type = "OFFICE_RETURN" THEN ReturnToOffice(st)
    ELSE st

\* one event applied to the dog and to the loot of its map
ApplyEvent(st, event) ==
    IF event.type = "ITEM_PICKUP"
    THEN IF ~IsBagFull(st.dog)
         THEN PickUp(st, FindLootItem(st.items, event.item_id[1]))
         ELSE st
    ELSE IF event.type = "OFFICE_RETURN" THEN ReturnToOffice(st)
    ELSE st

RECURSIVE ApplyEvents(_, _, _)
\* the events from position k on, in order
ApplyEvents(st, events, k) ==
    IF k > Len(events) THEN st
    ELSE ApplyEvents(ApplyEvent(st, events[k]), events, k + 1)

\* the dog and the loot of its map after the dog's collisions of this tick
ProcessDogCollisions(dog, items, start_pos, end_pos, tie) ==
    ApplyEvents([ dog |-> dog, items |-> items ],
                SortEvents(CollisionEvents(dog, items,
                                           GameMaps[FindMap(dog.map_id)].offices,
                                           start_pos, end_pos),
                           tie),
                1)

----------------------------------------------------------------------------
(* UpdateGameState and GenerateLootItems *)

\* the dog at position k and the loot of its map are replaced
StoreDog(app, k, st) ==
    [ app EXCEPT !.dogs[k] = st.dog, !.loot[st.dog.map_id] = st.items ]

\* ProcessDogCollisions(dog, start_pos, end_pos) for the moved dog at position k
Collide(app, k, start_pos, moved, tie) ==
    IF FindMap(moved.map_id) = 0
    THEN [ app EXCEPT !.dogs[k] = moved ]
    ELSE StoreDog(app, k, ProcessDogCollisions(moved, app.loot[moved.map_id],
                                               start_pos, moved.pos, tie))

\* one iteration of the loop of UpdateGameState
UpdateDog(app, k, delta, tie) ==
    Collide(app, k, app.dogs[k].pos, MoveDog(app.dogs[k], delta), tie)

RECURSIVE UpdateFrom(_, _, _, _)
\* the dogs from position k on, in sequence order
UpdateFrom(app, k, delta, tie) ==
    IF k > Len(app.dogs) THEN app
    ELSE UpdateFrom(UpdateDog(app, k, delta, tie), k + 1, delta, tie)

UpdateGameState(app, delta, tie) == UpdateFrom(app, 1, delta, tie)

\* the five items spawned on an empty map
SpawnedItems(first_id) ==
    [ i \in 1..LootPerSpawn |->
        [ id |-> first_id + i - 1, type |-> SpawnType, value |-> SpawnValue,
          pos |-> Pos(W(10) + (i - 1) * W(5), W(10)) ] ]

\* GenerateOn with the empty() test left out
GenerateOnAnyMap(app, map_id) ==
    [ app EXCEPT !.loot[map_id] = @ \o SpawnedItems(app.next_loot_id),
                 !.next_loot_id = @ + LootPerSpawn,
                 !.issued[map_id] = @ \o IdsOf(SpawnedItems(app.next_loot_id)) ]

\* one iteration of the loop of GenerateLootItems
GenerateOn(app, map_id) ==
    IF app.loot[map_id] = << >>
    THEN [ app EXCEPT !.loot[map_id] = SpawnedItems(app.next_loot_id),
                      !.next_loot_id = @ + LootPerSpawn,
                      !.issued[map_id] = @ \o IdsOf(SpawnedItems(app.next_loot_id)) ]
    ELSE app

RECURSIVE GenerateFrom(_, _)
GenerateFrom(app, m) ==
    IF m > Len(GameMaps) THEN app
    ELSE GenerateFrom(GenerateOn(app, GameMaps[m].id), m + 1)

GenerateLootItems(app) == GenerateFrom(app, 1)

----------------------------------------------------------------------------
(* Retirement *)

\* the result of a call that returned, and of a call an exception left
Returned(app) == [ app |-> app, threw |-> FALSE ]

Thrown(app) == [ app |-> app, threw |-> TRUE ]

\* the scores of the elements of a sequence of dogs
ScoresOf(dog_seq) == [ i \in DOMAIN dog_seq |-> dog_seq[i].score ]

\* history: the score of the dog that JoinGame created for the player, if it
\* is still in the dogs sequence
OwnScore(app, player_id) ==
    ScoresOf(SelectSeq(app.dogs, LAMBDA d : d.id = joined[player_id + 1].dog_id))

\* retirement_callback_(player->GetName(), dog->GetScore(), play_time_seconds)
Report(app, player_id, player, dog) ==
    IF CallbackSet
    THEN [ app EXCEPT
             !.records = Append(@, [ name |-> player.name, score |-> dog.score,
                                     play_time_seconds |->
                                         app.player_metadata[player_id].join_age ]),
             !.retire_calls = Append(@, [ player_id |-> player_id,
                                          own_score |-> OwnScore(app, player_id) ]) ]
    ELSE app

\* Remove with the is_retired assignment and the player-id erase left out
RemoveUnmarked(app, player_id, player, dog) ==
    [ app EXCEPT
        !.token_index = Erase(@, player.token),
        !.dog_id_index = Erase(@, dog.id),
        !.players = RemoveId(@, player_id),
        !.dogs = RemoveId(@, dog.id) ]

\* the rest of RetirePlayer after the callback
Remove(app, player_id, player, dog) ==
    [ app EXCEPT
        !.player_metadata[player_id].is_retired = TRUE,
        !.token_index = Erase(@, player.token),
        !.player_id_index = Erase(@, player_id),
        !.dog_id_index = Erase(@, dog.id),
        !.players = RemoveId(@, player_id),
        !.dogs = RemoveId(@, dog.id) ]

\* RetirePlayer once the player and the position d of the dog are looked up
RetireWith(app, player_id, player, d, sink) ==
    IF d = 0 THEN Returned(app)
    ELSE IF CallbackSet /\ sink = "down" THEN Thrown(app)
    ELSE Returned(Remove(Report(app, player_id, player, app.dogs[d]),
                         player_id, player, app.dogs[d]))

\* RetirePlayer once the position p of the player is looked up
RetireAt(app, player_id, p, sink) ==
    IF p = 0 THEN Returned(app)
    ELSE RetireWith(app, player_id, app.players[p],
                    FindDog(app, app.players[p].dog_id), sink)

\* RetirePlayer(player_id).  sink = "down": the retirement callback throws.
\* The result is the application state and whether an exception left the call.
RetirePlayer(app, player_id, sink) ==
    IF player_id \notin DOMAIN app.player_metadata
       \/ app.player_metadata[player_id].is_retired
    THEN Returned(app)
    ELSE RetireAt(app, player_id, FindPlayer(app, player_id), sink)

\* the dog the first loop of CheckPlayerRetirement examines for the player at
\* position p: 0 if the player or the dog is not found
DogOf(app, p) == IF p = 0 THEN 0 ELSE FindDog(app, app.players[p].dog_id)

ExaminedDog(app, player_id) == DogOf(app, FindPlayer(app, player_id))

\* the body of the first loop for one entry m whose examined dog is at d
Scanned(app, m, d) ==
    IF m.is_retired \/ d = 0 THEN m
    ELSE IF app.dogs[d].vel = Vel(0, 0)
         THEN IF m.idle_age = << >> THEN [ m EXCEPT !.idle_age = << 0 >> ] ELSE m
         ELSE [ m EXCEPT !.idle_age = << >> ]

\* the metadata after the first loop of CheckPlayerRetirement
IdleScan(app) ==
    [ id \in DOMAIN app.player_metadata |->
        Scanned(app, app.player_metadata[id], ExaminedDog(app, id)) ]

\* the first loop pushes the entry m whose examined dog is at d
Queued(app, m, d) ==
    /\ ~m.is_retired
    /\ d # 0
    /\ app.dogs[d].vel = Vel(0, 0)
    /\ m.idle_age # << >>
    /\ m.idle_age[1] >= RetireTime

\* the ids the first loop pushes to players_to_retire
RetireQueue(app) ==
    { id \in DOMAIN app.player_metadata :
        Queued(app, app.player_metadata[id], ExaminedDog(app, id)) }

\* the result of the second loop: the state, and the id whose retirement threw
Completed(app) == [ app |-> app, threw |-> << >> ]

Aborted(app, player_id) == [ app |-> app, threw |-> << player_id >> ]

RECURSIVE RetireFrom(_, _, _, _)

\* the rest of the second loop after the call for position k returned or threw
RetireNext(r, order, k, sink) ==
    IF r.threw THEN Aborted(r.app, order[k])
    ELSE RetireFrom(r.app, order, k + 1, sink)

\* the second loop of CheckPlayerRetirement, from position k of the queue
RetireFrom(app, order, k, sink) ==
    IF k > Len(order) THEN Completed(app)
    ELSE RetireNext(RetirePlayer(app, order[k], sink), order, k, sink)

\* the orders in which the unordered_map can hand out the ids of a set
Orders(S) ==
    { f \in [ 1..Cardinality(S) -> S ] : \A i, j \in DOMAIN f : f[i] = f[j] => i = j }

\* CheckPlayerRetirement with the queue filled in the given order
CheckPlayerRetirement(app, order, sink) ==
    RetireFrom([ app EXCEPT !.player_metadata = IdleScan(app) ], order, 1, sink)

----------------------------------------------------------------------------
(* Tick *)

\* the state at the start of CheckPlayerRetirement
BeforeRetirement(app, delta, tie) ==
    GenerateLootItems(UpdateGameState(app, delta, tie))

\* the state the tick leaves behind
Commit(r) ==
    /\ players' = r.app.players
    /\ dogs' = r.app.dogs
    /\ token_index' = r.app.token_index
    /\ player_id_index' = r.app.player_id_index
    /\ dog_id_index' = r.app.dog_id_index
    /\ player_metadata' = r.app.player_metadata
    /\ loot' = r.app.loot
    /\ next_loot_id' = r.app.next_loot_id
    /\ records' = r.app.records
    /\ retire_calls' = r.app.retire_calls
    /\ issued' = r.app.issued
    /\ tick_log' = [ threw |-> r.threw ]
    /\ UNCHANGED << next_dog_id, next_player_id, token_seq, joined, reply, db >>

\* CheckPlayerRetirement on the state a, for every order of the queue
Retirement(a, sink) ==
    \E order \in Orders(RetireQueue(a)) : Commit(CheckPlayerRetirement(a, order, sink))

Tick(delta, tie, sink) == Retirement(BeforeRetirement(App, delta, tie), sink)

----------------------------------------------------------------------------
(* Specifications *)

\* Spec: two players, ticks of either length and either tie order, a sink
\* that accepts every record.
Join ==
    /\ next_player_id < MaxJoins
    /\ UNCHANGED reply
    /\ \E n \in Names, m \in JoinMapIds : JoinGame(n, m)

Act == \E t \in Tokens, mv \in Moves : ActionRequest(t, mv)

Step == UNCHANGED << ticker, phase >> /\ \E d \in Deltas, tie \in Ties : Tick(d, tie, "ok")

Next == Join \/ Act \/ Step \/ Elapse

Spec == Init /\ [][Next]_vars

\* FairSpec: as Spec, with the beat of the ticker counted, so that every tick
\* is a step; the ticker never stops and the clock never stops for good.
Beat ==
    /\ ticker' = 1 - ticker
    /\ UNCHANGED phase
    /\ \E d \in Deltas, tie \in Ties : Tick(d, tie, "ok")

FairNext == Join \/ Act \/ Beat \/ Elapse

FairSpec == Init /\ [][FairNext]_vars /\ []<><<Beat>>_vars /\ WF_vars(Elapse)

\* SinkSpec: as Spec, and the records sink may be down during a tick.
SinkStep == UNCHANGED << ticker, phase >> /\ \E d \in Deltas, tie \in Ties, sink \in Sinks : Tick(d, tie, sink)

SinkNext == Join \/ Act \/ SinkStep \/ Elapse

SinkSpec == Init /\ [][SinkNext]_vars

\* SessionSpec: four players of whom two are present at a time, one-second
\* ticks, a sink that accepts every record.
SessionJoin ==
    /\ next_player_id < SessionJoins
    /\ Len(players) < SessionLive
    /\ UNCHANGED reply
    /\ \E n \in SessionNames, m \in JoinMapIds : JoinGame(n, m)

SessionAct == \E t \in SessionTokens, mv \in Moves : ActionRequest(t, mv)

SessionStep == UNCHANGED << ticker, phase >> /\ Tick(1000, "fifo", "ok")

SessionNext == SessionJoin \/ SessionAct \/ SessionStep \/ Elapse

SessionSpec == Init /\ [][SessionNext]_vars

\* CrowdSpec: three players named alike on the one map, half-second ticks,
\* the moves "R" and "", a sink that accepts every record.
CrowdJoin ==
    /\ next_player_id < CrowdJoins
    /\ UNCHANGED reply
    /\ JoinGame("ann", "m1")

CrowdAct == \E t \in 1..CrowdJoins, mv \in {"R", ""} : ActionRequest(t, mv)

CrowdStep == UNCHANGED << ticker, phase >> /\ Tick(500, "fifo", "ok")

CrowdNext == CrowdJoin \/ CrowdAct \/ CrowdStep \/ Elapse

CrowdSpec == Init /\ [][CrowdNext]_vars

\* LootSpec: the map has a loot type; one player, the moves "R", "D" and "U",
\* one-second ticks.
LootJoin ==
    /\ next_player_id < LootJoins
    /\ UNCHANGED reply
    /\ JoinGame("ann", "m1")

LootAct == \E t \in 1..LootJoins, mv \in {"R", "D", "U"} : ActionRequest(t, mv)

LootNext == LootJoin \/ LootAct \/ SessionStep \/ Elapse

LootSpec == LootInit /\ [][LootNext]_vars

\* RaceSpec: the ticker thread and the request workers call into the
\* Application side by side.  Tick, which takes no lock, is three steps of the
\* ticker thread, and a request may run between any two of them.
RaceJoin ==
    /\ next_player_id < RaceJoins
    /\ UNCHANGED reply
    /\ JoinGame("ann", "m1")

RaceAct == \E t \in 1..RaceJoins, mv \in {"R", ""} : ActionRequest(t, mv)

\* the state a step of Tick leaves behind
Install(app) == Commit([ app |-> app, threw |-> tick_log.threw ])

TickUpdateGameState ==
    /\ phase = 0
    /\ phase' = 1
    /\ UNCHANGED ticker
    /\ Install(UpdateGameState(App, 1000, "fifo"))

TickGenerateLootItems ==
    /\ phase = 1
    /\ phase' = 2
    /\ UNCHANGED ticker
    /\ Install(GenerateLootItems(App))

TickCheckPlayerRetirement ==
    /\ phase = 2
    /\ phase' = 0
    /\ UNCHANGED ticker
    /\ Retirement(App, "ok")

RaceNext ==
    \/ RaceJoin \/ RaceAct \/ Elapse
    \/ TickUpdateGameState \/ TickGenerateLootItems \/ TickCheckPlayerRetirement

RaceSpec == Init /\ [][RaceNext]_vars

\* RequestSpec: two players, one-second ticks, and every JoinGame call leaves
\* a record of its arguments and of what it returned.  A call that is
\* rejected is made whatever the number of players.
RequestJoin ==
    \E n \in Names, m \in JoinMapIds :
        /\ next_player_id < MaxJoins \/ n = "" \/ m \notin MapIds
        /\ JoinGame(n, m)
        /\ reply' = << [ user_name |-> n, map_id |-> m,
                         returned |-> JoinGameResult(n, m) ] >>

RequestNext == RequestJoin \/ Act \/ SessionStep \/ Elapse

RequestSpec == Init /\ [][RequestNext]_vars

----------------------------------------------------------------------------
(* Vocabulary of the properties *)

IsRetired(id) == id \in DOMAIN player_metadata /\ player_metadata[id].is_retired

IsLive(id) == id \in DOMAIN player_metadata /\ ~player_metadata[id].is_retired

\* the 1-based position of the element with the id, or 0
PositionOf(seq, id) ==
    IF \E i \in DOMAIN seq : seq[i].id = id
    THEN CHOOSE i \in DOMAIN seq : seq[i].id = id
    ELSE 0

\* the 1-based position an index holds for a key, or 0
IndexAt(index, key) == IF key \in DOMAIN index THEN index[key] + 1 ELSE 0

\* the ids for which a RetirePlayer call has gone through
RetiredIds ==
    { retire_calls[i].player_id : i \in DOMAIN retire_calls }
    \cup { id \in DOMAIN player_metadata : player_metadata[id].is_retired }

CountId(seq, id) == Cardinality({ i \in DOMAIN seq : seq[i].id = id })

RECURSIVE CountInBags(_, _, _)
CountInBags(dog_seq, k, id) ==
    IF k > Len(dog_seq) THEN 0
    ELSE CountId(dog_seq[k].bag, id) + CountInBags(dog_seq, k + 1, id)

RECURSIVE CountOnMaps(_, _)
CountOnMaps(m, id) ==
    IF m > Len(GameMaps) THEN 0
    ELSE CountId(loot[GameMaps[m].id], id) + CountOnMaps(m + 1, id)

RECURSIVE ValueOfDogs(_, _)
ValueOfDogs(dog_seq, k) ==
    IF k > Len(dog_seq) THEN 0
    ELSE dog_seq[k].score + SumValues(dog_seq[k].bag) + ValueOfDogs(dog_seq, k + 1)

RECURSIVE ValueOnMaps(_)
ValueOnMaps(m) ==
    IF m > Len(GameMaps) THEN 0
    ELSE SumValues(loot[GameMaps[m].id]) + ValueOnMaps(m + 1)

RECURSIVE ValueLoaded(_)
ValueLoaded(m) ==
    IF m > Len(GameMaps) THEN 0
    ELSE SumValues(LoadMapLootTypes(GameMaps[m], "id_first")) + ValueLoaded(m + 1)

----------------------------------------------------------------------------
(* Properties *)

\* C1: at every quiescent point, for every player that joined and is not
\* retired, the token index and the player-id index hold the player's position
\* in the players sequence and the dog-id index holds the position of the
\* player's dog in the dogs sequence.
IndicesConsistent ==
    \A j \in DOMAIN joined :
        IsLive(joined[j].id) =>
            /\ PositionOf(players, joined[j].id) # 0
            /\ IndexAt(token_index, joined[j].token) = PositionOf(players, joined[j].id)
            /\ IndexAt(player_id_index, joined[j].id) = PositionOf(players, joined[j].id)
            /\ PositionOf(dogs, joined[j].dog_id) # 0
            /\ IndexAt(dog_id_index, joined[j].dog_id) = PositionOf(dogs, joined[j].dog_id)

OwnerOrNil(p, token) == p = 0 \/ players[p].token = token

\* C2: for every token JoinGame has issued, FindPlayerByToken returns nullptr
\* or the player whose own token it is.
TokenFindsOwner ==
    \A j \in DOMAIN joined :
        OwnerOrNil(FindPlayerByToken(App, joined[j].token), joined[j].token)

\* C3: a player marked retired is absent from the three indices and, with its
\* dog, from the two sequences; a player not marked retired and its dog are
\* present in all of them.
RetiredAbsentLivePresent ==
    \A j \in DOMAIN joined :
        /\ IsRetired(joined[j].id) =>
               /\ joined[j].token \notin DOMAIN token_index
               /\ joined[j].id \notin DOMAIN player_id_index
               /\ joined[j].dog_id \notin DOMAIN dog_id_index
               /\ PositionOf(players, joined[j].id) = 0
               /\ PositionOf(dogs, joined[j].dog_id) = 0
        /\ IsLive(joined[j].id) =>
               /\ joined[j].token \in DOMAIN token_index
               /\ joined[j].id \in DOMAIN player_id_index
               /\ joined[j].dog_id \in DOMAIN dog_id_index
               /\ PositionOf(players, joined[j].id) # 0
               /\ PositionOf(dogs, joined[j].dog_id) # 0

\* C4: in every state after a player's retirement, the player's token is
\* unauthorized: FindPlayerByToken returns nullptr and GetPlayers and
\* GetGameState return the empty list.
RetiredTokenUnauthorized ==
    \A j \in DOMAIN joined :
        IsRetired(joined[j].id) =>
            /\ FindPlayerByToken(App, joined[j].token) = 0
            /\ GetPlayers(App, joined[j].token) = << >>
            /\ GetGameState(App, joined[j].token) = << >>

\* the player with this id has joined, is not retired, and its own dog is in
\* the dogs sequence with velocity zero
OwnDogIdle(id) ==
    /\ id + 1 \in DOMAIN joined
    /\ ~IsRetired(id)
    /\ \E i \in DOMAIN dogs : dogs[i].id = joined[id + 1].dog_id /\ dogs[i].vel = Vel(0, 0)

\* C5: with ticks and the clock going on, no player stays unretired for ever
\* with its own dog at velocity zero.
IdlePlayersEventuallyRetired ==
    \A id \in 0..(MaxJoins - 1) : []<>(~OwnDogIdle(id))

\* C6: every retired player has exactly one record, and each record carries
\* the name of the player RetirePlayer was called for, the score of that
\* player's own dog and the play time since that player joined.
RecordsCarryOwnData ==
    /\ Len(records) = Len(retire_calls)
    /\ \A i \in DOMAIN retire_calls :
           /\ records[i].name = joined[retire_calls[i].player_id + 1].name
           /\ retire_calls[i].own_score = << records[i].score >>
           /\ records[i].play_time_seconds =
                  player_metadata[retire_calls[i].player_id].join_age
    /\ \A i, k \in DOMAIN retire_calls :
           retire_calls[i].player_id = retire_calls[k].player_id => i = k
    /\ \A id \in DOMAIN player_metadata :
           player_metadata[id].is_retired =>
               \E i \in DOMAIN retire_calls : retire_calls[i].player_id = id

\* C7: RetirePlayer for a player id that has been retired leaves the
\* application state as it is, whatever the state of the sink: no index,
\* sequence or metadata changes and no record is emitted.
RetireTwiceNoEffect ==
    \A id \in RetiredIds, sink \in Sinks : RetirePlayer(App, id, sink) = Returned(App)

\* a player has been retired while another player is present and idle, so a
\* RetirePlayer call that got past its guards would have a player to remove
RetiredBesideIdlePlayer ==
    /\ RetiredIds # {}
    /\ \E i \in DOMAIN players : IsLive(players[i].id)
    /\ \E i \in DOMAIN dogs : dogs[i].vel = Vel(0, 0)
    /\ Len(records) >= 1

\* C8: a player whose retirement callback threw during the last tick is
\* nevertheless marked retired and removed from the indices and sequences.
SinkFailureStillRetires ==
    \A i \in DOMAIN tick_log.threw :
        /\ IsRetired(tick_log.threw[i])
        /\ tick_log.threw[i] \notin DOMAIN player_id_index
        /\ PositionOf(players, tick_log.threw[i]) = 0
        /\ joined[tick_log.threw[i] + 1].token \notin DOMAIN token_index

\* C9: every dog's bag holds at most the bag capacity of the dog's map.
BagWithinCapacity ==
    \A i \in DOMAIN dogs :
        Len(dogs[i].bag) <= GameMaps[FindMap(dogs[i].map_id)].bag_capacity

\* a dog with a full bag stands away from the spawn point on an item that is
\* still on the map: its pickup event was dropped
FullBagPassedItem ==
    \E i \in DOMAIN dogs :
        /\ dogs[i].bag # << >>
        /\ IsBagFull(dogs[i])
        /\ dogs[i].pos.x > W(10)
        /\ \E k \in DOMAIN loot[dogs[i].map_id] :
               loot[dogs[i].map_id][k].pos = dogs[i].pos

RejectedJoinChangesNothing ==
    [][ (reply' # reply /\ (reply'[1].user_name = "" \/ reply'[1].map_id \notin MapIds))
            => (reply'[1].returned = << >> /\ UNCHANGED served) ]_vars

\* a call with an empty name, on a map that exists, was rejected while a
\* player was in the game
JoinRejected ==
    /\ players # << >>
    /\ reply # << >>
    /\ reply[1].user_name = ""
    /\ reply[1].map_id \in MapIds
    /\ reply[1].returned = << >>

\* the dog JoinGame created for the player, if it is in the dogs sequence
OwnDogs(app, player) == SelectSeq(app.dogs, LAMBDA d : d.id = player.dog_id)

\* the velocity and the facing a move code asks for
AlongAxis(move, speed) ==
    IF move = "L" THEN Vel(-speed, 0)
    ELSE IF move = "R" THEN Vel(speed, 0)
    ELSE IF move = "U" THEN Vel(0, -speed)
    ELSE Vel(0, speed)

Facing(move) ==
    IF move = "L" THEN "W"
    ELSE IF move = "R" THEN "E"
    ELSE IF move = "U" THEN "N"
    ELSE "S"

\* C15, for one call: after is the state SetPlayerAction(player, move) leaves
ActionObeyed(app, player, move, after) ==
    IF move \notin {"L", "R", "U", "D", ""}
    THEN after = app
    ELSE /\ Len(OwnDogs(app, player)) = 1
         /\ Len(OwnDogs(after, player)) = 1
         /\ IF move = ""
            THEN /\ OwnDogs(after, player)[1].vel = Vel(0, 0)
                 /\ OwnDogs(after, player)[1].dir = OwnDogs(app, player)[1].dir
            ELSE /\ OwnDogs(after, player)[1].vel
                        = AlongAxis(move, GameMaps[FindMap(player.map_id)].dog_speed)
                 /\ OwnDogs(after, player)[1].dir = Facing(move)

\* C15: for every player a token resolves to, SetPlayerAction with a code
\* outside L, R, U, D and "" leaves velocity, facing and idle-start time as
\* they are; with "" it sets the velocity of the player's dog to zero and
\* keeps its facing; with L, R, U or D it sets the velocity of the player's
\* dog to the map's dog speed along the axis, and the matching facing.
ActionSetsOwnDog ==
    \A t \in 1..token_seq, move \in {"L", "R", "U", "D", "", "X"} :
        FindPlayerByToken(App, t) # 0 =>
            ActionObeyed(App, players[FindPlayerByToken(App, t)], move,
                         SetPlayerAction(App, players[FindPlayerByToken(App, t)], move))

\* C16, for one call that returned true: before and after are the metadata
\* of the player before and after it
IdleStartKept(move, before, after) ==
    IF move = ""
    THEN /\ after.idle_age # << >>
         /\ before.idle_age # << >> => after.idle_age = before.idle_age
    ELSE after.idle_age = << >>

\* C16: for every player a token resolves to, after a SetPlayerAction with L,
\* R, U or D that returned true the idle-start time of the player is unset;
\* after one with "" that returned true it is set, and it is the one that was
\* set before the call if there was one.
StopKeepsIdleStart ==
    \A t \in 1..token_seq, move \in {"L", "R", "U", "D", ""} :
        (/\ FindPlayerByToken(App, t) # 0
         /\ SetPlayerActionResult(App, players[FindPlayerByToken(App, t)], move)) =>
            IdleStartKept(move,
                          player_metadata[players[FindPlayerByToken(App, t)].id],
                          SetPlayerAction(App, players[FindPlayerByToken(App, t)], move)
                              .player_metadata[players[FindPlayerByToken(App, t)].id])

\* a player that has been idle for the retirement time, has not been retired
\* yet and whose stop action is accepted
StopWhileLongIdle ==
    \E t \in 1..token_seq :
        /\ FindPlayerByToken(App, t) # 0
        /\ SetPlayerActionResult(App, players[FindPlayerByToken(App, t)], "")
        /\ player_metadata[players[FindPlayerByToken(App, t)].id].idle_age
               = << RetireTime >>

\* the player id is retired by the retirement check that leads from a to b
NewlyRetired(a, b, id) ==
    /\ ~a.player_metadata[id].is_retired
    /\ b.player_metadata[id].is_retired

\* C17, for one player and the state a at the retirement check: the dog
\* JoinGame created for the player stands still and the idle-start time of
\* the player is at least the retirement time old
IdleLongEnough(a, id) ==
    /\ \A i \in DOMAIN a.dogs :
           a.dogs[i].id = joined[id + 1].dog_id => a.dogs[i].vel = Vel(0, 0)
    /\ a.player_metadata[id].idle_age # << >>
    /\ a.player_metadata[id].idle_age[1] >= RetireTime

\* C17: a tick retires a player only if, at the retirement check of that
\* tick, the player's own dog has zero velocity and the player's idle-start
\* time was set at least dog_retirement_time_seconds earlier; a player whose
\* own dog is moving at the check is not retired in that tick.
RetiredOnlyWhenIdle ==
    LET a == BeforeRetirement(App, 500, "fifo")
    IN  \A order \in Orders(RetireQueue(a)), id \in DOMAIN player_metadata :
            NewlyRetired(a, CheckPlayerRetirement(a, order, "ok").app, id) =>
                IdleLongEnough(a, id)

\* the id is among the ids of the items in the bags of the dogs
InSomeBag(id) == \E i \in DOMAIN dogs : CountId(dogs[i].bag, id) > 0

\* C18: the items present on a map have different ids, no id was given to
\* two items of a map (the items created at load time included), and so no
\* bag and no map holds an id that the map or another bag holds as well.
LootIdsNeverReused ==
    \A m \in MapIds :
        /\ \A i, j \in DOMAIN loot[m] : loot[m][i].id = loot[m][j].id => i = j
        /\ \A i, j \in DOMAIN issued[m] : issued[m][i] = issued[m][j] => i = j
        /\ \A i \in DOMAIN loot[m] : ~InSomeBag(loot[m][i].id)

\* C19, for one map: a is the state after the collisions of the tick, b the
\* state after GenerateLootItems
Refilled(a, b, m) ==
    /\ a.loot[m] = << >> =>
           /\ Len(b.loot[m]) = 5
           /\ \A i \in DOMAIN b.loot[m] :
                  b.loot[m][i].type = 1 /\ b.loot[m][i].value = 10
    /\ a.loot[m] # << >> => b.loot[m] = a.loot[m]
    /\ b.loot[m] # << >>
    /\ Len(b.loot[m]) > Len(a.loot[m]) =>
           Len(a.loot[m]) = 0 /\ Len(b.loot[m]) = 5

\* C19: in every tick, a map that is empty after the collisions gets exactly
\* five new items of type 1 and value 10 and a map that is not empty is left
\* as it is; the retirement check does not touch the loot, so no map is empty
\* after a tick, and the number of items of a map grows only from 0 to 5.
GeneratorRefillsEmptyMaps ==
    \A d \in Deltas, tie \in Ties :
        LET a == UpdateGameState(App, d, tie)
            b == GenerateLootItems(a)
        IN  /\ \A m \in MapIds : Refilled(a, b, m)
            /\ \A order \in Orders(RetireQueue(b)) :
                   CheckPlayerRetirement(b, order, "ok").app.loot = b.loot

\* the coming tick takes the last item off a map that has been generated on
\* before or was loaded with items
LastItemTaken ==
    \E d \in Deltas, tie \in Ties, m \in MapIds :
        /\ loot[m] # << >>
        /\ UpdateGameState(App, d, tie).loot[m] = << >>

\* C20: JoinGame, SetPlayerAction and Tick exclude one another: a step that
\* is not a step of the ticker thread changes the players, the dogs, the
\* three indices or the loot only while no Tick is part-way through.
RequestsOutsideTick ==
    [][ (/\ phase' = phase
         /\ << players, dogs, token_index, player_id_index, dog_id_index, loot >>'
                # << players, dogs, token_index, player_id_index, dog_id_index, loot >>)
            => phase = 0 ]_vars

----------------------------------------------------------------------------
(* One dog's collisions of one tick, event by event *)

RECURSIVE UpdatedUpTo(_, _, _, _)
\* the state inside UpdateGameState when the first n dogs have been updated
UpdatedUpTo(app, n, delta, tie) ==
    IF n = 0 THEN app
    ELSE UpdateDog(UpdatedUpTo(app, n - 1, delta, tie), n, delta, tie)

\* the dog at position i when its turn in the loop of UpdateGameState begins
TurnStart(i, delta, tie) == UpdatedUpTo(App, i - 1, delta, tie).dogs[i]

\* the same dog after MoveDog
TurnDog(i, delta, tie) == MoveDog(TurnStart(i, delta, tie), delta)

\* the loot of its map at that moment
TurnItems(i, delta, tie) ==
    UpdatedUpTo(App, i - 1, delta, tie).loot[TurnStart(i, delta, tie).map_id]

\* the sorted events of the moved dog that started the tick at start_pos
EventsOf(moved, items, start_pos, tie) ==
    SortEvents(CollisionEvents(moved, items, GameMaps[FindMap(moved.map_id)].offices,
                               start_pos, moved.pos),
               tie)

TurnEvents(i, delta, tie) ==
    EventsOf(TurnDog(i, delta, tie), TurnItems(i, delta, tie),
             TurnStart(i, delta, tie).pos, tie)

\* the dog and the loot after the first k of the events
AfterEvents(moved, items, events, k) ==
    ApplyEvents([ dog |-> moved, items |-> items ], SubSeq(events, 1, k), 1)

\* event k is a pickup that finds the bag full
FullBagPickup(moved, items, events, k) ==
    /\ events[k].type = "ITEM_PICKUP"
    /\ IsBagFull(AfterEvents(moved, items, events, k - 1).dog)

\* event j is a pickup that finds room in the bag
RoomyPickup(moved, items, events, j) ==
    /\ events[j].type = "ITEM_PICKUP"
    /\ ~IsBagFull(AfterEvents(moved, items, events, j - 1).dog)

\* an office return comes after event j
ReturnFollows(events, j) ==
    \E k \in DOMAIN events : k > j /\ events[k].type = "OFFICE_RETURN"

\* the value of the item of pickup event j, as it lies on the map before it
PickedValue(moved, items, events, j) ==
    SumValues(SelectSeq(AfterEvents(moved, items, events, j - 1).items,
                        LAMBDA it : it.id = events[j].item_id[1]))

RECURSIVE PickedThenReturned(_, _, _, _)
\* the values of the items picked up by the events from j on and returned by
\* a later event of the same tick
PickedThenReturned(moved, items, events, j) ==
    IF j > Len(events) THEN 0
    ELSE (IF RoomyPickup(moved, items, events, j) /\ ReturnFollows(events, j)
          THEN PickedValue(moved, items, events, j)
          ELSE 0)
         + PickedThenReturned(moved, items, events, j + 1)

\* the values of the items carried into the tick and returned in it
CarriedThenReturned(moved, events) ==
    IF ReturnFollows(events, 0) THEN SumValues(moved.bag) ELSE 0

\* the items picked up in the tick and not returned in it are in the bag
UnreturnedInBag(moved, items, events) ==
    \A j \in DOMAIN events :
        RoomyPickup(moved, items, events, j) /\ ~ReturnFollows(events, j) =>
            CountId(AfterEvents(moved, items, events, Len(events)).dog.bag,
                    events[j].item_id[1]) = 1

\* C11, for one dog and one tick: a pickup that finds the bag full changes
\* nothing, its item is on the map at the end of the tick and the dog stands
\* where the move put it.
SkipsChangeNothing(moved, items, events) ==
    \A k \in DOMAIN events :
        FullBagPickup(moved, items, events, k) =>
            /\ AfterEvents(moved, items, events, k)
                   = AfterEvents(moved, items, events, k - 1)
            /\ CountId(AfterEvents(moved, items, events, Len(events)).items,
                       events[k].item_id[1]) = 1
            /\ AfterEvents(moved, items, events, Len(events)).dog.pos = moved.pos

\* C11: in every tick, for every dog, a pickup event processed while the bag
\* is full is dropped: bag, score and map are as before the event, the item is
\* still on the map when the dog's events are done, and the end position of
\* the dog is the one the move computed.
FullBagDropsPickup ==
    \A i \in DOMAIN dogs, d \in Deltas, tie \in Ties :
        LET moved == TurnDog(i, d, tie)
            items == TurnItems(i, d, tie)
            events == TurnEvents(i, d, tie)
        IN  SkipsChangeNothing(moved, items, events)

\* a moving dog whose coming tick holds a pickup event that finds the bag
\* full and is followed by another event
FullBagMeetsItem ==
    \E i \in DOMAIN dogs, d \in Deltas, tie \in Ties :
        \E k \in DOMAIN TurnEvents(i, d, tie) :
            /\ dogs[i].vel # Vel(0, 0)
            /\ FullBagPickup(TurnDog(i, d, tie), TurnItems(i, d, tie),
                             TurnEvents(i, d, tie), k)
            /\ k < Len(TurnEvents(i, d, tie))

\* C12, for one dog and one tick.
ReturnsBankBag(moved, items, events) ==
    \A k \in DOMAIN events :
        events[k].type = "OFFICE_RETURN" =>
            /\ AfterEvents(moved, items, events, k).dog.score
                   = AfterEvents(moved, items, events, k - 1).dog.score
                     + SumValues(AfterEvents(moved, items, events, k - 1).dog.bag)
            /\ AfterEvents(moved, items, events, k).dog.bag = << >>
            /\ AfterEvents(moved, items, events, k).items
                   = AfterEvents(moved, items, events, k - 1).items
            /\ \A j \in 1..(k - 1) :
                   RoomyPickup(moved, items, events, j) =>
                       /\ AfterEvents(moved, items, events, k).dog.score
                              >= AfterEvents(moved, items, events, j - 1).dog.score
                                 + PickedValue(moved, items, events, j)
                       /\ CountId(AfterEvents(moved, items, events, Len(events)).items,
                                  events[j].item_id[1]) = 0
            /\ k = Len(events) =>
                   AfterEvents(moved, items, events, Len(events)).dog.bag = << >>

\* C12: an office-return event adds the sum of the values of the bag's items
\* to the score, empties the bag and leaves the map as it is; an item picked
\* up earlier in the same tick is paid for by the return and is gone from the
\* map, and the tick ends with an empty bag when the return is its last event.
OfficeReturnBanksBag ==
    \A i \in DOMAIN dogs, d \in Deltas, tie \in Ties :
        LET moved == TurnDog(i, d, tie)
            items == TurnItems(i, d, tie)
            events == TurnEvents(i, d, tie)
        IN  ReturnsBankBag(moved, items, events)

\* a dog whose coming tick picks an item up, returns it at an office and
\* then picks up another item
PickupReturnRefill ==
    \E i \in DOMAIN dogs, d \in Deltas, tie \in Ties :
        \E j, k, l \in DOMAIN TurnEvents(i, d, tie) :
            /\ j < k /\ k < l
            /\ RoomyPickup(TurnDog(i, d, tie), TurnItems(i, d, tie),
                           TurnEvents(i, d, tie), j)
            /\ TurnEvents(i, d, tie)[k].type = "OFFICE_RETURN"
            /\ RoomyPickup(TurnDog(i, d, tie), TurnItems(i, d, tie),
                           TurnEvents(i, d, tie), l)

\* the change of the score over the events of one dog's turn
ScoreGain(moved, items, events) ==
    AfterEvents(moved, items, events, Len(events)).dog.score - moved.score

\* C13 as stated, for one dog and one tick
GainIsPickedThenReturned(moved, items, events) ==
    /\ ScoreGain(moved, items, events)
           = PickedThenReturned(moved, items, events, 1)
    /\ UnreturnedInBag(moved, items, events)

\* C13 amended, for one dog and one tick
GainIsReturned(moved, items, events) ==
    /\ ScoreGain(moved, items, events)
           = PickedThenReturned(moved, items, events, 1)
             + CarriedThenReturned(moved, events)
    /\ UnreturnedInBag(moved, items, events)

\* C13 as stated: in every tick, for every dog, the change of the score is
\* the sum of the values of the items picked up and then returned in that
\* tick, and the items picked up and not returned in it are in the bag.
ScoreGainIsPickedThenReturned ==
    \A i \in DOMAIN dogs, d \in Deltas, tie \in Ties :
        LET moved == TurnDog(i, d, tie)
            items == TurnItems(i, d, tie)
            events == TurnEvents(i, d, tie)
        IN  GainIsPickedThenReturned(moved, items, events)

\* C13, amended: in every tick, for every dog, the change of the score is the
\* sum of the values of the items returned in that tick, which are the items
\* picked up and then returned in it and, when the tick has a return, the
\* items the dog carried in its bag into the tick; the items picked up and not
\* returned in it are in the bag.
ScoreGainIsReturned ==
    \A i \in DOMAIN dogs, d \in Deltas, tie \in Ties :
        LET moved == TurnDog(i, d, tie)
            items == TurnItems(i, d, tie)
            events == TurnEvents(i, d, tie)
        IN  GainIsReturned(moved, items, events)

\* a dog that carries an item into a tick in which it reaches an office
CarriedItemReachesOffice ==
    \E i \in DOMAIN dogs, d \in Deltas, tie \in Ties :
        /\ TurnStart(i, d, tie).bag # << >>
        /\ TurnStart(i, d, tie).vel # Vel(0, 0)
        /\ ReturnFollows(TurnEvents(i, d, tie), 0)

----------------------------------------------------------------------------
(* The order of one dog's events *)

Reversed(s) == [ k \in DOMAIN s |-> s[Len(s) + 1 - k] ]

\* no event of the sequence has a timestamp before the one of an earlier event
TimeOrdered(events) ==
    \A j, k \in DOMAIN events :
        j < k => ~Before(events[k].timestamp, events[j].timestamp)

\* the events of the dog's turn are those of the loop of ProcessDogCollisions
\* and, for the loot and the offices in the given orders, the loop would walk
\* them in time order
TurnTimeOrdered(moved, start_pos, items, offices, tie) ==
    TimeOrdered(SortEvents(CollisionEvents(moved, items, offices,
                                           start_pos, moved.pos), tie))

\* C24: for one dog in one tick the loop of ProcessDogCollisions applies the
\* events in non-decreasing order of their timestamps: no event takes effect
\* before an event with a strictly smaller timestamp, whatever the order of
\* the loot items and of the offices in the map's collections.
EventsAppliedInTimeOrder ==
    \A i \in DOMAIN dogs, d \in Deltas, tie \in Ties :
        LET start == TurnStart(i, d, tie)
            moved == MoveDog(start, d)
            items == TurnItems(i, d, tie)
            offices == GameMaps[FindMap(moved.map_id)].offices
        IN  /\ TimeOrdered(TurnEvents(i, d, tie))
            /\ \A io \in {items, Reversed(items)}, oo \in {offices, Reversed(offices)} :
                   TurnTimeOrdered(moved, start.pos, io, oo, tie)

\* a turn whose events were inserted in another order than that of their
\* timestamps: a later inserted event has the strictly smaller timestamp
InsertedOutOfTimeOrder ==
    \E i \in DOMAIN dogs, d \in Deltas, tie \in Ties :
        LET start == TurnStart(i, d, tie)
            moved == MoveDog(start, d)
            items == TurnItems(i, d, tie)
            offices == GameMaps[FindMap(moved.map_id)].offices
        IN  ~TimeOrdered(CollisionEvents(moved, items, offices, start.pos, moved.pos))

\* events j and k have the same timestamp
SameTime(events, j, k) ==
    /\ ~Before(events[j].timestamp, events[k].timestamp)
    /\ ~Before(events[k].timestamp, events[j].timestamp)

\* of a pickup and a return with the same timestamp the pickup comes first
PickupFirst(events) ==
    \A j, k \in DOMAIN events :
        (/\ events[j].type = "ITEM_PICKUP"
         /\ events[k].type = "OFFICE_RETURN"
         /\ SameTime(events, j, k)) => j < k

\* C25: events of one dog with equal timestamps are applied in insertion
\* order (pickups in loot order, then returns in office order): the walked
\* vector is the stable sort of the inserted one, a pickup and a return with
\* the same timestamp apply the pickup first, and the state after the update
\* of a tick is a function of the state before it and the tick length.
EqualTimesInInsertionOrder ==
    \A d \in Deltas, tie \in Ties :
        /\ UpdateGameState(App, d, tie) = UpdateGameState(App, d, "fifo")
        /\ \A i \in DOMAIN dogs :
               LET start == TurnStart(i, d, tie)
                   moved == MoveDog(start, d)
                   items == TurnItems(i, d, tie)
               IN  /\ PickupFirst(EventsOf(moved, items, start.pos, tie))
                   /\ EventsOf(moved, items, start.pos, tie)
                          = EventsOf(moved, items, start.pos, "fifo")

----------------------------------------------------------------------------
(* The phases of a tick *)

\* the ids given to items of map m between the states app and later
IssuedBetween(app, later, m) ==
    { later.issued[m][k] : k \in (Len(app.issued[m]) + 1)..Len(later.issued[m]) }

\* the items spawned since the state app lie on their map in the state later
\* and are in no bag
SpawnedUntouched(app, later) ==
    \A m \in MapIds : \A id \in IssuedBetween(app, later, m) :
        /\ CountId(later.loot[m], id) = 1
        /\ \A i \in DOMAIN later.dogs : CountId(later.dogs[i].bag, id) = 0

\* the record k made by CheckPlayerRetirement carries the score the player's
\* own dog has in the state updated
RecordAfterUpdate(updated, retired, k) ==
    << retired.records[k].score >>
        = ScoresOf(SelectSeq(updated.dogs,
                             LAMBDA d : d.id = joined[retired.retire_calls[k].player_id + 1].dog_id))

\* C26: a tick moves every dog and resolves its collisions, then generates
\* loot, then retires players: the loot spawned in a tick is picked up by
\* no dog in that tick, and the score emitted for a player retired in a tick
\* is the score of its dog after that tick's motion and collisions, office
\* returns of that tick included.
TickPhasesInOrder ==
    \A d \in Deltas, tie \in Ties :
        LET updated == UpdateGameState(App, d, tie)
            before == BeforeRetirement(App, d, tie)
        IN  /\ SpawnedUntouched(App, before)
            /\ \A order \in Orders(RetireQueue(before)) :
                   LET retired == CheckPlayerRetirement(before, order, "ok").app
                   IN  /\ SpawnedUntouched(App, retired)
                       /\ \A k \in (Len(records) + 1)..Len(retired.records) :
                              RecordAfterUpdate(updated, retired, k)

----------------------------------------------------------------------------
(* Several retirements in one tick *)

\* the number of calls of the retirement callback for the player
CallsFor(app, player_id) ==
    Cardinality({ k \in DOMAIN app.retire_calls :
                    app.retire_calls[k].player_id = player_id })

\* the player is marked retired, is in no index and in neither sequence, and
\* has exactly one record
FullyRetired(app, player_id) ==
    /\ app.player_metadata[player_id].is_retired
    /\ player_id \notin DOMAIN app.player_id_index
    /\ joined[player_id + 1].token \notin DOMAIN app.token_index
    /\ joined[player_id + 1].dog_id \notin DOMAIN app.dog_id_index
    /\ CountId(app.players, player_id) = 0
    /\ CountId(app.dogs, joined[player_id + 1].dog_id) = 0
    /\ CallsFor(app, player_id) = 1
    /\ Len(app.records) = Len(app.retire_calls)

\* C27: every player that satisfies the retirement condition in a tick is
\* retired by the end of that tick, in whatever order the queue is walked:
\* marked retired, removed from the indices and the sequences, one record.
AllQueuedRetired ==
    \A d \in Deltas, tie \in Ties :
        LET before == BeforeRetirement(App, d, tie)
        IN  \A order \in Orders(RetireQueue(before)) :
                LET retired == CheckPlayerRetirement(before, order, "ok").app
                IN  \A id \in RetireQueue(before) : FullyRetired(retired, id)

----------------------------------------------------------------------------
(* ConnectionPool *)

\* the return statement of GetConnection with the increment left out
HandOutKeepCount(pool, used) ==
    [ conn |-> pool[used + 1],
      pool |-> [ pool EXCEPT ![used + 1] = 0 ],
      used |-> used ]

\* return {std::move(pool_[used_connections_++]), *this}: the connection
\* handed out, the pool with the slot moved from, and the new count
HandOut(pool, used) ==
    [ conn |-> pool[used + 1],
      pool |-> [ pool EXCEPT ![used + 1] = 0 ],
      used |-> used + 1 ]

\* notify_one wakes no thread
NotifyNone(waiting) == {0}

\* cond_var_.notify_one(): the threads it may wake, 0 for none
NotifyOne(waiting) == IF waiting = {} THEN {0} ELSE waiting

\* a Database operation calls pool_.GetConnection()
Call(t) ==
    /\ workers[t].pc = "idle"
    /\ workers' = [ workers EXCEPT ![t].pc = "lock" ]
    /\ UNCHANGED << pool_, used_connections_, mutex_, cond_var_ >>
    /\ UNCHANGED << served, reply, retired_players, top >>

\* std::unique_lock lock{mutex_}, and the lock taken again when wait wakes up
Lock(t) ==
    /\ workers[t].pc = "lock"
    /\ mutex_ = 0
    /\ mutex_' = t
    /\ workers' = [ workers EXCEPT ![t].pc = "wait" ]
    /\ UNCHANGED << pool_, used_connections_, cond_var_ >>
    /\ UNCHANGED << served, reply, retired_players, top >>

\* cond_var_.wait(lock, predicate) with the lock held.  Predicate true: the
\* connection is handed out and the lock released as GetConnection returns.
\* Predicate false: the lock is released and the thread blocks.
Wait(t) ==
    /\ workers[t].pc = "wait"
    /\ IF used_connections_ < Len(pool_)
       THEN /\ pool_' = HandOut(pool_, used_connections_).pool
            /\ used_connections_' = HandOut(pool_, used_connections_).used
            /\ workers' = [ workers EXCEPT
                              ![t] = [ pc |-> "holding",
                                       conn_ |-> HandOut(pool_, used_connections_).conn ] ]
            /\ UNCHANGED cond_var_
       ELSE /\ cond_var_' = cond_var_ \cup {t}
            /\ workers' = [ workers EXCEPT ![t].pc = "blocked" ]
            /\ UNCHANGED << pool_, used_connections_ >>
    /\ mutex_' = 0
    /\ UNCHANGED << served, reply, retired_players, top >>

\* a blocked thread wakes up without a notification
SpuriousWake(t) ==
    /\ t \in cond_var_
    /\ cond_var_' = cond_var_ \ {t}
    /\ workers' = [ workers EXCEPT ![t].pc = "lock" ]
    /\ UNCHANGED << pool_, used_connections_, mutex_ >>
    /\ UNCHANGED << served, reply, retired_players, top >>

\* ~ConnectionWrapper: a wrapper that holds a connection returns it
Destroy(t) ==
    /\ workers[t].pc = "holding"
    /\ workers' = [ workers EXCEPT
                      ![t].pc = IF workers[t].conn_ # 0 THEN "return" ELSE "idle" ]
    /\ UNCHANGED << pool_, used_connections_, mutex_, cond_var_ >>
    /\ UNCHANGED << served, reply, retired_players, top >>

\* std::lock_guard lock{mutex_} of ReturnConnection
ReturnLock(t) ==
    /\ workers[t].pc = "return"
    /\ mutex_ = 0
    /\ mutex_' = t
    /\ workers' = [ workers EXCEPT ![t].pc = "store" ]
    /\ UNCHANGED << pool_, used_connections_, cond_var_ >>
    /\ UNCHANGED << served, reply, retired_players, top >>

\* the block of ReturnConnection under the lock:
\* pool_[--used_connections_] = std::move(conn); a failed assertion stops the
\* thread with the lock held
Store(t) ==
    /\ workers[t].pc = "store"
    /\ IF used_connections_ = 0
       THEN /\ workers' = [ workers EXCEPT ![t].pc = "failed" ]
            /\ UNCHANGED << pool_, used_connections_, mutex_ >>
       ELSE /\ pool_' = [ pool_ EXCEPT ![used_connections_] = workers[t].conn_ ]
            /\ used_connections_' = used_connections_ - 1
            /\ mutex_' = 0
            /\ workers' = [ workers EXCEPT ![t] = [ pc |-> "notify", conn_ |-> 0 ] ]
    /\ UNCHANGED cond_var_
    /\ UNCHANGED << served, reply, retired_players, top >>

\* cond_var_.notify_one() of ReturnConnection, which ends the operation: the
\* thread w, if any, leaves the wait and goes for the lock
Notify(t) ==
    /\ workers[t].pc = "notify"
    /\ \E w \in NotifyOne(cond_var_) :
           /\ cond_var_' = cond_var_ \ {w}
           /\ workers' = [ u \in DOMAIN workers |->
                             IF u = t THEN [ workers[u] EXCEPT !.pc = "idle" ]
                             ELSE IF u = w THEN [ workers[u] EXCEPT !.pc = "lock" ]
                             ELSE workers[u] ]
    /\ UNCHANGED << pool_, used_connections_, mutex_ >>
    /\ UNCHANGED << served, reply, retired_players, top >>

\* PoolSpec: PoolThreads threads use a pool of PoolCapacity connections; the
\* Application and the table are left alone.
PoolNext ==
    \E t \in 1..PoolThreads :
        \/ Call(t) \/ Lock(t) \/ Wait(t) \/ SpuriousWake(t)
        \/ Destroy(t) \/ ReturnLock(t) \/ Store(t) \/ Notify(t)

PoolSpec == Init /\ [][PoolNext]_vars

\* PoolFairSpec: as PoolSpec, under fair scheduling: a thread that can take
\* a step under the lock, leave its operation or destroy its wrapper does so
\* in the end (every holder returns its connection), and a thread that can
\* take the mutex again and again takes it in the end.  No thread has to
\* start an operation, and no wait has to wake up without a notification.
PoolFairSpec ==
    /\ Init
    /\ [][PoolNext]_vars
    /\ \A t \in 1..PoolThreads :
           /\ WF_vars(Wait(t) \/ Destroy(t) \/ Store(t) \/ Notify(t))
           /\ SF_vars(Lock(t) \/ ReturnLock(t))

\* the threads that have a connection out of the pool
Holders == { t \in (1..PoolThreads) : workers[t].pc \in {"holding", "return", "store"} }

\* the count, the holders and the slots agree
PoolSafeState ==
    /\ used_connections_ <= Len(pool_)
    /\ Len(pool_) = PoolCapacity
    /\ Cardinality(Holders) = used_connections_
    /\ \A t \in Holders : workers[t].conn_ # 0
    /\ \A t, u \in Holders : workers[t].conn_ = workers[u].conn_ => t = u
    /\ \A k \in (used_connections_ + 1)..Len(pool_) :
           /\ pool_[k] # 0
           /\ \A t \in Holders : workers[t].conn_ # pool_[k]
           /\ \A j \in (used_connections_ + 1)..Len(pool_) : pool_[j] = pool_[k] => j = k
    /\ \A t \in (1..PoolThreads) : workers[t].pc # "failed"

\* a thread whose wait finds every connection in use blocks
BlocksWhenFull ==
    \A t \in (1..PoolThreads) :
        (/\ workers[t].pc = "wait"
         /\ workers'[t].pc # "wait"
         /\ used_connections_ = Len(pool_)) => workers'[t].pc = "blocked" /\ t \in cond_var_'

\* C21: in every interleaving of the threads, the number of connections
\* handed out is the count used_connections_ and never exceeds the capacity,
\* a thread that asks while all connections are in use blocks, no connection
\* is held by two holders, every connection handed out is non-null, and
\* every slot at an index >= used_connections_ holds a connection.
PoolSafe == []PoolSafeState /\ [][BlocksWhenFull]_vars

\* all connections are out, a thread holds one and another is blocked in the
\* wait for one
AcquirerBlockedOnFullPool ==
    /\ used_connections_ = PoolCapacity
    /\ cond_var_ # {}
    /\ \E t \in (1..PoolThreads) : workers[t].pc = "holding"

\* thread t is in GetConnection
Acquiring(t) == workers[t].pc \in {"lock", "wait", "blocked"}

\* no wake-up is lost: while a connection is free and a thread is blocked in
\* the wait, a notification is on its way or a thread is on its way to the
\* predicate; and no assertion has failed
NoLostWakeUp ==
    /\ \A t \in 1..PoolThreads : workers[t].pc # "failed"
    /\ (used_connections_ < Len(pool_) /\ cond_var_ # {})
           => \E t \in 1..PoolThreads : workers[t].pc \in {"notify", "lock", "wait"}

\* C22 as stated: with more threads than connections and every holder
\* returning its connection, there is no failure and no lost wake-up, and
\* under fair scheduling every thread in GetConnection obtains a connection.
EveryAcquirerServed ==
    /\ []NoLostWakeUp
    /\ \A t \in 1..PoolThreads : Acquiring(t) ~> (workers[t].pc = "holding")

\* C22, amended: there is no failure and no lost wake-up, a full pool gets a
\* free connection again, and under fair scheduling a thread in GetConnection
\* while a connection is free obtains a connection unless other threads take
\* the free connections first.
FreeConnectionIsTaken ==
    /\ []NoLostWakeUp
    /\ (used_connections_ = Len(pool_)) ~> (used_connections_ < Len(pool_))
    /\ \A t \in 1..PoolThreads :
           (Acquiring(t) /\ used_connections_ < Len(pool_))
               ~> (workers[t].pc = "holding" \/ used_connections_ = Len(pool_))

\* a connection has come back while a thread is still blocked in the wait
WaiterBesideFreeConnection ==
    /\ used_connections_ < Len(pool_)
    /\ cond_var_ # {}
    /\ \E t \in 1..PoolThreads : workers[t].pc = "notify"

----------------------------------------------------------------------------
(* Database *)

\* Seconds are counted in units of half a millisecond, so that
\* play_time_seconds * 1000.0 can have a fraction for the cast to cut off.

\* ORDER BY score DESC, play_time_ms ASC, name ASC: row a sorts before row b
RowBefore(a, b) ==
    \/ a.score > b.score
    \/ /\ a.score = b.score
       /\ \/ a.play_time_ms < b.play_time_ms
          \/ /\ a.play_time_ms = b.play_time_ms
             /\ [ A |-> 1, B |-> 2, C |-> 3 ][a.name] < [ A |-> 1, B |-> 2, C |-> 3 ][b.name]

\* the rows in the order of the ORDER BY clause; rows that agree in the three
\* columns are alike in the result, whichever comes first
OrderBy(rows) ==
    [ k \in DOMAIN rows |->
        rows[CHOOSE i \in DOMAIN rows :
               Cardinality({ j \in DOMAIN rows :
                               \/ RowBefore(rows[j], rows[i])
                               \/ ~RowBefore(rows[i], rows[j]) /\ j < i }) = k - 1] ]

\* LIMIT limit OFFSET offset of the ordered rows, each row made a
\* RetiredPlayer with play_time_seconds = play_time_ms / 1000.0
Page(ordered, limit, offset) ==
    [ k \in 1..(Min(offset + limit, Len(ordered)) - offset) |->
        [ name |-> ordered[offset + k].name,
          score |-> ordered[offset + k].score,
          play_time_seconds |-> ordered[offset + k].play_time_ms * 2 ] ]

\* GetRecords with the two query parameters passed in the other order
GetRecordsSwapped(rows, start, max_items) == Page(OrderBy(rows), start, max_items)

\* Database::GetRecords on the table rows: the query with the parameters
\* max_items, start
GetRecords(rows, start, max_items) == Page(OrderBy(rows), max_items, start)

\* Database::AddRetiredPlayer: the INSERT, with
\* play_time_ms = static_cast<int64_t>(play_time_seconds * 1000.0).  The
\* connection taken from the pool is back in its slot when the call returns.
AddRetiredPlayer(name, score, play_time_seconds) ==
    /\ Len(retired_players) < MaxRows
    /\ retired_players' = Append(retired_players,
                                 [ name |-> name, score |-> score,
                                   play_time_ms |-> play_time_seconds \div 2 ])
    /\ UNCHANGED << served, reply, pool_, used_connections_, mutex_, cond_var_,
                    workers, top >>

\* a caller of GetRecords keeps what it asked for and what it got
GetRecordsCall(start, max_items) ==
    /\ top' = << [ start |-> start, max_items |-> max_items,
                   returned |-> GetRecords(retired_players, start, max_items) ] >>
    /\ UNCHANGED << served, reply, pool_, used_connections_, mutex_, cond_var_,
                    workers, retired_players >>

\* RecordsSpec: up to MaxRows of eight records are appended, with play times
\* of 3 s, 3.0005 s, 5 s and 9 s, and pages of up to MaxRows records are
\* queried.
RecordsNext ==
    \/ \E r \in { << "A", 10, 10000 >>, << "B", 10, 6000 >>, << "C", 20, 18000 >>,
                  << "B", 10, 6001 >>, << "A", 10, 6000 >>, << "C", 10, 10000 >>,
                  << "A", 20, 18000 >>, << "B", 20, 6000 >> } :
           AddRetiredPlayer(r[1], r[2], r[3])
    \/ \E start \in 0..(MaxRows - 1), max_items \in 0..MaxRows :
           GetRecordsCall(start, max_items)

RecordsSpec == Init /\ [][RecordsNext]_vars

\* the sort key of a returned record or of a row, with the time in ms
KeyOf(r) ==
    << 0 - r.score,
       IF "play_time_ms" \in DOMAIN r THEN r.play_time_ms ELSE r.play_time_seconds \div 2,
       CHOOSE n \in 1..3 : << "A", "B", "C" >>[n] = r.name >>

\* key a is strictly before key b in the order of tuples
KeyBefore(a, b) ==
    \E n \in 1..3 : a[n] < b[n] /\ \A m \in 1..(n - 1) : a[m] = b[m]

\* record r stands at position p (from 1) of the sorted table
AtSortedPosition(r, p) ==
    /\ \E i \in DOMAIN retired_players : KeyOf(retired_players[i]) = KeyOf(r)
    /\ Cardinality({ i \in DOMAIN retired_players :
                       KeyBefore(KeyOf(retired_players[i]), KeyOf(r)) }) < p
    /\ p <= Cardinality({ i \in DOMAIN retired_players :
                            ~KeyBefore(KeyOf(r), KeyOf(retired_players[i])) })

\* the page the last call returned is the records at the positions
\* start .. start + max_items - 1 of the sorted table, fewer if it is shorter
PageOfSorted(q) ==
    /\ Len(q.returned) = Max(0, Min(q.max_items, Len(retired_players) - q.start))
    /\ \A k \in DOMAIN q.returned : AtSortedPosition(q.returned[k], q.start + k)

\* after the appends (A,10,5000), (B,10,3000), (C,20,9000), top(0, 3) is [C, B, A]
ExampleAnswered(q) ==
    (/\ retired_players = << [ name |-> "A", score |-> 10, play_time_ms |-> 5000 ],
                             [ name |-> "B", score |-> 10, play_time_ms |-> 3000 ],
                             [ name |-> "C", score |-> 20, play_time_ms |-> 9000 ] >>
     /\ q.start = 0
     /\ q.max_items = 3)
        => [ k \in DOMAIN q.returned |-> q.returned[k].name ] = << "C", "B", "A" >>

\* what a call of GetRecords in the present state is asked and returns
Answer(start, max_items) ==
    [ start |-> start, max_items |-> max_items,
      returned |-> GetRecords(retired_players, start, max_items) ]

\* consecutive records of the page are strictly ordered
StrictlyOrdered(page) ==
    \A k \in 1..(Len(page) - 1) : KeyBefore(KeyOf(page[k]), KeyOf(page[k + 1]))

\* consecutive records of the page are strictly ordered or equal
OrderedOrEqual(page) ==
    \A k \in 1..(Len(page) - 1) :
        \/ KeyBefore(KeyOf(page[k]), KeyOf(page[k + 1]))
        \/ page[k] = page[k + 1]

\* C23 as stated: GetRecords(start, max) returns the records at the
\* positions start .. start+max-1 of the table sorted by score descending,
\* play_time_ms ascending, name ascending; consecutive returned records are
\* strictly ordered by (-score, play_time_ms, name); and the example holds.
TopReturnsStrictlyOrderedPage ==
    \A start \in 0..(MaxRows - 1), max_items \in 0..MaxRows :
        LET q == Answer(start, max_items)
        IN  /\ PageOfSorted(q)
            /\ ExampleAnswered(q)
            /\ StrictlyOrdered(q.returned)

\* C23, amended: as stated, but consecutive returned records are ordered by
\* (-score, play_time_ms, name) and not always strictly: records that agree
\* in score, play_time_ms and name follow one another, all others are
\* strictly ordered.
TopReturnsOrderedPage ==
    \A start \in 0..(MaxRows - 1), max_items \in 0..MaxRows :
        LET q == Answer(start, max_items)
        IN  /\ PageOfSorted(q)
            /\ ExampleAnswered(q)
            /\ OrderedOrEqual(q.returned)

\* the last call returned, from the middle of the present table, a page with
\* two records that agree in score, play_time_ms and name, and the table has
\* a record that differs
PageWithEqualRecords ==
    /\ top # << >>
    /\ top[1] = Answer(top[1].start, top[1].max_items)
    /\ top[1].start > 0
    /\ Len(top[1].returned) = 2
    /\ top[1].returned[1] = top[1].returned[2]
    /\ \E i \in DOMAIN retired_players :
           KeyOf(retired_players[i]) # KeyOf(top[1].returned[1])

====
